---- MODULE Spec2Model ----
(***************************************************************************)
(* A model of src/app.py: the per-student data generator                   *)
(* (generuj_dane_studenta), the answer key (oblicz_poprawne_statystyki and *)
(* its classifiers) and the Flask routes that choose the student id.       *)
(*                                                                         *)
(* Numbers.  Coefficients r are integers in thousandths (r = -0.55 is      *)
(* -550), p-values and D statistics are integers in ten-thousandths        *)
(* (p = 0.0001 is 1, p = 0.05 is 500), raw draws are integers in tenths.   *)
(* NaN is the float NaN: every ordering comparison with it is false.       *)
(*                                                                         *)
(* Strings.  The Polish labels are written without diacritics (slaby,      *)
(* zwiazku, spelnienie, niespelnienie).  Identifiers and formatted numbers *)
(* are sequences of one-character strings, so that str.strip(),            *)
(* str.replace() and truthiness (non-empty) are computed, not assumed.     *)
(*                                                                         *)
(* Libraries.  numpy's Mersenne Twister is abstracted to a 15-bit linear   *)
(* congruential generator held in one process-global variable, as          *)
(* np.random is.  hashlib.md5 is a table of the real digests of the        *)
(* identifiers the model uses.  scipy/statsmodels results are either       *)
(* inputs drawn from bounded sets (SpecStats) or a fixed function of the   *)
(* data (the request handlers).                                            *)
(***************************************************************************)
EXTENDS Integers, Sequences, FiniteSets, TLC

VARIABLES
    rng,            \* np.random's process-global generator state
    pc,             \* per thread: "idle", "seeded", "drawn"
    call_uid,       \* per thread: the user_id argument of the running call
    call_df,        \* per thread: the DataFrame the running call has drawn
    call_no,        \* history, per thread: the number of the running call
    log,            \* history: [no, user_id, df, key] of every finished call
    ncalls,         \* history: number of calls started
    has_statsmodels,\* HAS_STATSMODELS, set once at import
    has_pyreadstat, \* HAS_PYREADSTAT, set once at import
    lib,            \* SpecStats: the library results of the analysed data
    wynik,          \* SpecStats: what oblicz_poprawne_statystyki gave back
    session,        \* Flask session: the stored user_id, or None
    stored,         \* history: every identifier the session has held
    request,        \* the last request handled
    response        \* the response to it

vars == <<rng, pc, call_uid, call_df, call_no, log, ncalls, has_statsmodels,
          has_pyreadstat, lib, wynik, session, stored, request, response>>

genVars == <<rng, pc, call_uid, call_df, call_no, log, ncalls>>
statVars == <<lib, wynik>>
webVars == <<session, stored, request, response>>

-----------------------------------------------------------------------------
(* Bounds of the model *)

NThreads == 2
MaxCalls == 3

Threads == 1..NThreads

-----------------------------------------------------------------------------
(* Values *)

None == <<"None">>
NaN == 99999

Lt(a, b) == a # NaN /\ b # NaN /\ a < b
Gt(a, b) == a # NaN /\ b # NaN /\ a > b
Ge(a, b) == a # NaN /\ b # NaN /\ a >= b
Abs(x) == IF x = NaN THEN NaN ELSE IF x < 0 THEN -x ELSE x

-----------------------------------------------------------------------------
(* Identifiers *)

ID_JAN == <<"J", "a", "n">>
ID_S1 == <<"s", "1">>
ID_ADM == <<"a", "d", "m">>
ID_UUID1 == <<"a", "1", "b", "2", "c", "3", "d", "4">>
ID_UUID2 == <<"9", "f", "8", "e", "7", "d", "6", "c">>
ID_EMPTY == <<>>
ID_ADM_PADDED == <<" ", "a", "d", "m", " ">>
ID_BLANK == <<" ", " ">>

\* identifiers of direct calls to the generator
CallIds == {ID_JAN, ID_S1, ID_ADM}

-----------------------------------------------------------------------------
(* 1. Data generation: generuj_dane_studenta *)

\* hashlib.md5(s).hexdigest() as eight 16-bit words, most significant first:
\* the real digests of the identifiers the model uses.
md5_hexdigest(s) ==
    CASE s = ID_JAN -> <<59013, 25842, 15886, 37786, 52903, 28099, 53948, 447>>
      [] s = ID_S1 -> <<36319, 34688, 14775, 1895, 50341, 48372, 61636, 63070>>
      [] s = ID_ADM -> <<45212, 24591, 56773, 29681, 5956, 39735, 9202, 15716>>
      [] s = ID_UUID1 -> <<8897, 20273, 6752, 18539, 14071, 40763, 51554, 48742>>
      [] s = ID_UUID2 -> <<8509, 47096, 41557, 7403, 56605, 3329, 59063, 26995>>
      [] s = ID_EMPTY -> <<54301, 36057, 36608, 45572, 59776, 2456, 60664, 17022>>

\* int(seed_hex, 16) % (2**32): the low 32 bits of the digest, kept as the
\* pair <<high 16 bits, low 16 bits>>.
seed_of(user_id) ==
    LET w == md5_hexdigest(user_id)
    IN  <<w[7], w[8]>>

RngModulus == 32768

\* a seeding that mixes the seed into the state the generator is in
np_random_seed_mixing(seed) == (rng + seed[1] * 7 + seed[2]) % RngModulus

\* np.random.seed(seed): the global generator restarts from a state that
\* depends on the seed alone.
np_random_seed(seed) == (seed[1] * 7 + seed[2]) % RngModulus

\* one step of the generator, as the affine map s |-> a * s + c
RngStep == [a |-> 25173, c |-> 13849]

\* f after g, both affine maps modulo RngModulus
Compose(f, g) == [a |-> (f.a * g.a) % RngModulus, c |-> (f.a * g.c + f.c) % RngModulus]

\* k steps of the generator as one affine map (by repeated squaring)
RECURSIVE RngSteps(_)
RngSteps(k) ==
    IF k = 0 THEN [a |-> 1, c |-> 0]
    ELSE IF k % 2 = 0 THEN LET h == RngSteps(k \div 2) IN Compose(h, h)
    ELSE Compose(RngStep, RngSteps(k - 1))

DefaultN == 100

\* the affine maps of 0..5 * DefaultN steps, the draws of one call
StepsTable == [k \in 0..(5 * DefaultN) |-> RngSteps(k)]

\* the generator state k steps after s
RngSkip(s, k) ==
    LET f == IF k \in DOMAIN StepsTable THEN StepsTable[k] ELSE RngSteps(k)
    IN  (f.a * s + f.c) % RngModulus

\* a standard normal deviate read off a generator state, in tenths of a
\* standard deviation, within -ZMax..ZMax
ZMax == 45
standard_normal(s) == ((s \div 16) % (2 * ZMax + 1)) - ZMax

Columns == <<"Ekstrawersja", "Neurotyzm", "Otwartosc", "Ugodowosc", "Sumiennosc">>
mean == <<12, 12, 12, 13, 14>>
\* sd = 3.5, in tenths
sd == 35

\* np.random.multivariate_normal(mean, cov_matrix, size=n) on the global
\* generator in state s: n records of five raw values in tenths, in draw
\* order, and the state left behind.  Value j of record i is read off the
\* state 5 * (i - 1) + j steps after s: mean plus sd times a deviate (the
\* mixing of the deviates by the covariance matrix is not modelled).
multivariate_normal(s, n) ==
    [data |-> [i \in 1..n |-> [j \in 1..5 |->
                 mean[j] * 10
                 + ((sd * standard_normal(RngSkip(s, 5 * (i - 1) + j))) \div 10)]],
     state |-> RngSkip(s, 5 * n)]

\* np.rint(x).astype(int) of x tenths: nearest integer, halves to even
np_rint(x) ==
    LET q == x \div 10
        r == x % 10
    IN  IF r < 5 THEN q
        ELSE IF r > 5 THEN q + 1
        ELSE IF q % 2 = 0 THEN q ELSE q + 1

\* np.clip(v, lo, hi)
np_clip(v, lo, hi) == IF v < lo THEN lo ELSE IF v > hi THEN hi ELSE v

\* rounding with the upper limit of the range left out
RoundAndClipLow(x) == LET v == np_rint(x) IN IF v < 5 THEN 5 ELSE v

\* lines 62-63: round, then limit the range of points to 5..20
RoundAndClip(x) == np_clip(np_rint(x), 5, 20)

\* lines 61-66 on the generator state s: the DataFrame and the state after
DrawDataFrame(s, n) ==
    LET d == multivariate_normal(s, n)
    IN  [df |-> [i \in 1..n |-> [j \in 1..5 |-> RoundAndClip(d.data[i][j])]],
         state |-> d.state]

\* generuj_dane_studenta(user_id) run with no other call in between:
\* seed (lines 44-46), then draw (lines 61-66)
generuj_dane_studenta(user_id) ==
    DrawDataFrame(np_random_seed(seed_of(user_id)), DefaultN)

-----------------------------------------------------------------------------
(* 2. Answer key: classifiers and formatting *)

\* a classifier whose thresholds fall in the weaker class
ocen_sile_inclusive(r) ==
    LET abs_r == Abs(r)
    IN  IF abs_r # NaN /\ abs_r <= 100 THEN "brak"
        ELSE IF abs_r # NaN /\ abs_r <= 300 THEN "slaby"
        ELSE IF abs_r # NaN /\ abs_r <= 500 THEN "umiarkowany"
        ELSE "silny"

\* ocen_sile(r), r in thousandths
ocen_sile(r) ==
    LET abs_r == Abs(r)
    IN  IF Lt(abs_r, 100) THEN "brak"
        ELSE IF Lt(abs_r, 300) THEN "slaby"
        ELSE IF Lt(abs_r, 500) THEN "umiarkowany"
        ELSE "silny"

\* ocen_kierunek(r)
ocen_kierunek(r) ==
    IF Lt(Abs(r), 100) THEN "zwiazku"
    ELSE IF Gt(r, 0) THEN "pozytywny" ELSE "negatywny"

Digit(d) == <<"0", "1", "2", "3", "4", "5", "6", "7", "8", "9">>[d + 1]

\* f"{r:.2f}": r in thousandths to text with two decimals.  The nearest
\* hundredth; a value exactly between two hundredths goes to the even one
\* (the inputs of the model hold no such value).
FormatFixed2(r) ==
    IF r = NaN THEN <<"n", "a", "n">>
    ELSE LET a == Abs(r)
             q == a \div 10
             m == a % 10
             h == IF m < 5 THEN q
                  ELSE IF m > 5 THEN q + 1
                  ELSE IF q % 2 = 0 THEN q ELSE q + 1
             sign == IF r < 0 THEN <<"-">> ELSE <<>>
         IN  sign \o <<Digit(h \div 100), ".", Digit((h \div 10) % 10), Digit(h % 10)>>

\* str.replace(old, new) for one-character old and new
Replace(text, old, new) ==
    [i \in 1..Len(text) |-> IF text[i] = old THEN new ELSE text[i]]

\* format_r_z_gwiazdkami(r, p), p in ten-thousandths
format_r_z_gwiazdkami(r, p) ==
    LET stars == IF Lt(p, 10) THEN <<"*", "*", "*">>
                 ELSE IF Lt(p, 100) THEN <<"*", "*">>
                 ELSE IF Lt(p, 500) THEN <<"*">>
                 ELSE <<>>
    IN  Replace(FormatFixed2(r) \o stars, ".", ",")

PREFIX_MAP ==
    [Ekstrawersja |-> "ekstra", Neurotyzm |-> "neuro", Otwartosc |-> "otwar",
     Ugodowosc |-> "ugoda", Sumiennosc |-> "sumien"]

vars_list == <<"Ekstrawersja", "Neurotyzm", "Otwartosc", "Ugodowosc", "Sumiennosc">>

\* idx = {name: i for i, name in enumerate(vars_list)}, counted from 1
idx(name) == CHOOSE i \in 1..Len(vars_list) : vars_list[i] = name

pairs == <<
    <<"Neurotyzm", "Ekstrawersja", "corr_neuro_ekstra">>,
    <<"Otwartosc", "Ekstrawersja", "corr_otwar_ekstra">>,
    <<"Otwartosc", "Neurotyzm", "corr_otwar_neuro">>,
    <<"Ugodowosc", "Ekstrawersja", "corr_ugoda_ekstra">>,
    <<"Ugodowosc", "Neurotyzm", "corr_ugoda_neuro">>,
    <<"Ugodowosc", "Otwartosc", "corr_ugoda_otwar">>,
    <<"Sumiennosc", "Ekstrawersja", "corr_sumien_ekstra">>,
    <<"Sumiennosc", "Neurotyzm", "corr_sumien_neuro">>,
    <<"Sumiennosc", "Otwartosc", "corr_sumien_otwar">>,
    <<"Sumiennosc", "Ugodowosc", "corr_sumien_ugoda">> >>

-----------------------------------------------------------------------------
(* 2. Answer key: oblicz_poprawne_statystyki                                *)
(*                                                                          *)
(* L holds what the libraries give for the analysed DataFrame:              *)
(*   L.describe[col]   = [m, min, max]   (pandas; median, sd, skewness and  *)
(*                       kurtosis are further pass-through values and are   *)
(*                       not kept)                                          *)
(*   L.lilliefors[col] = [raised, d, p]  statsmodels' lilliefors            *)
(*   L.kstest[col]     = [raised, d, p]  scipy's kstest of the z-scores     *)
(*   L.spearmanr       = [raised, rho, p], rho and p functions on <<i, j>>  *)

\* A. descriptive statistics of one column (lines 102-109)
DescriptiveKeys(L, col) ==
    LET prefix == PREFIX_MAP[col]
        d == L.describe[col]
    IN  (prefix \o "_m" :> d.m) @@ (prefix \o "_min" :> d.min)
        @@ (prefix \o "_max" :> d.max)

\* A. normality test of one column (lines 112-119): [raised, d, p].  With
\* statsmodels a failing test is replaced by d = 0, p = 1.0; without it the
\* kstest call is unguarded.
NormalityTest(L, has_sm, col) ==
    IF has_sm
    THEN IF L.lilliefors[col].raised
         THEN [raised |-> FALSE, d |-> 0, p |-> 10000]
         ELSE L.lilliefors[col]
    ELSE L.kstest[col]

\* lines 121-122
NormalityKeys(L, has_sm, col) ==
    LET prefix == PREFIX_MAP[col]
        t == NormalityTest(L, has_sm, col)
    IN  (prefix \o "_d" :> t.d) @@ (prefix \o "_p" :> t.p)

\* B. the method decision from klucz['neuro_p'] (lines 126-131)
MethodKeys(neuro_p) ==
    IF Lt(neuro_p, 500)
    THEN ("rozklad_typ" :> "niespelnienie") @@ ("korelacja_typ" :> "rho-Spearmana")
    ELSE ("rozklad_typ" :> "spelnienie") @@ ("korelacja_typ" :> "r-Pearsona")

\* get_rp(v1, v2) on the result sp of stats.spearmanr (lines 138-140)
get_rp(sp, v1, v2) ==
    LET i == idx(v1)
        j == idx(v2)
    IN  <<sp.rho[<<i, j>>], sp.p[<<i, j>>]>>

\* C. the ten formatted correlations (lines 156-158)
RECURSIVE CorrelationKeys(_, _)
CorrelationKeys(sp, k) ==
    IF k = 0 THEN <<>>
    ELSE LET rp == get_rp(sp, pairs[k][1], pairs[k][2])
         IN  (pairs[k][3] :> format_r_z_gwiazdkami(rp[1], rp[2]))
             @@ CorrelationKeys(sp, k - 1)

\* D. the four decisions (lines 165, 171, 177, 184-187)
h1_decyzja(r1, p1) ==
    IF Lt(p1, 500) /\ Lt(r1, 0) THEN "potwierdza" ELSE "nie potwierdza"

h2_decyzja(r2, p2) ==
    IF Lt(p2, 500) /\ Gt(r2, 0) THEN "potwierdza" ELSE "nie potwierdza"

\* H3 decided as H2 is, expecting a positive relation
h3_decyzja_positive(r3, p3) ==
    IF Lt(p3, 500) /\ Gt(r3, 0) THEN "potwierdza" ELSE "nie potwierdza"

h3_decyzja(r3, p3) ==
    IF Lt(p3, 500) /\ Lt(r3, 0) THEN "potwierdza" ELSE "nie potwierdza"

\* H4 decided as H2 is, without the floor on |r|
h4_decyzja_no_floor(r4, p4) ==
    IF Lt(p4, 500) /\ Gt(r4, 0) THEN "potwierdza" ELSE "nie potwierdza"

h4_decyzja(r4, p4) ==
    IF Lt(Abs(r4), 100) \/ Ge(p4, 500)
    THEN "nie potwierdza"
    ELSE IF Gt(r4, 0) THEN "potwierdza" ELSE "nie potwierdza"

\* the pair each hypothesis reads (lines 162, 168, 174, 180)
HypothesisPair ==
    << <<"Neurotyzm", "Ekstrawersja">>, <<"Otwartosc", "Ekstrawersja">>,
       <<"Otwartosc", "Neurotyzm">>, <<"Ugodowosc", "Ekstrawersja">> >>

Decyzja(h, r, p) ==
    CASE h = 1 -> h1_decyzja(r, p)
      [] h = 2 -> h2_decyzja(r, p)
      [] h = 3 -> h3_decyzja(r, p)
      [] h = 4 -> h4_decyzja(r, p)

HName(h) == <<"h1", "h2", "h3", "h4">>[h]

\* D. the keys of hypothesis h (lines 162-187)
HypothesisKeys(sp, h) ==
    LET rp == get_rp(sp, HypothesisPair[h][1], HypothesisPair[h][2])
    IN  (HName(h) \o "_sila" :> ocen_sile(rp[1]))
        @@ (HName(h) \o "_kierunek" :> ocen_kierunek(rp[1]))
        @@ (HName(h) \o "_decyzja" :> Decyzja(h, rp[1], rp[2]))

\* stages C and D on the Spearman result sp
CorrelationStage(sp) ==
    CorrelationKeys(sp, Len(pairs))
    @@ HypothesisKeys(sp, 1) @@ HypothesisKeys(sp, 2)
    @@ HypothesisKeys(sp, 3) @@ HypothesisKeys(sp, 4)

\* stages A and B
DescriptiveStage(L, has_sm) ==
    LET A(col) == DescriptiveKeys(L, col) @@ NormalityKeys(L, has_sm, col)
        a == A("Ekstrawersja") @@ A("Neurotyzm") @@ A("Otwartosc")
             @@ A("Ugodowosc") @@ A("Sumiennosc")
    IN  a @@ MethodKeys(a["neuro_p"])

\* whether an exception leaves the function: an unguarded library call raised
Raises(L, has_sm) ==
    \/ \E i \in 1..Len(vars_list) : NormalityTest(L, has_sm, vars_list[i]).raised
    \/ L.spearmanr.raised

NoKey == <<>>

\* the variant that lets the method label choose the coefficients: Spearman's
\* when the label is rho-Spearmana, another matrix otherwise
oblicz_label_branches(L, has_sm) ==
    IF Raises(L, has_sm) THEN [outcome |-> "raise", klucz |-> NoKey]
    ELSE LET ab == DescriptiveStage(L, has_sm)
             sp == L.spearmanr
             other == [sp EXCEPT !.rho = [ij \in DOMAIN sp.rho |-> 0]]
         IN  [outcome |-> "return",
              klucz |-> ab @@ CorrelationStage(
                            IF ab["korelacja_typ"] = "rho-Spearmana" THEN sp ELSE other)]

\* oblicz_poprawne_statystyki(df): the key, or the exception
oblicz_poprawne_statystyki(L, has_sm) ==
    IF Raises(L, has_sm) THEN [outcome |-> "raise", klucz |-> NoKey]
    ELSE [outcome |-> "return",
          klucz |-> DescriptiveStage(L, has_sm) @@ CorrelationStage(L.spearmanr)]

-----------------------------------------------------------------------------
(* Library results *)

Indexes == (1..5) \X (1..5)

\* the library results analysed in SpecStats: coefficients and p-values on
\* and around every threshold of the key
RVals == <<-1000, -550, -500, -499, -300, -299, -100, -99, -1, 0,
           1, 99, 100, 299, 300, 499, 500, 550, 1000>>
PVals == <<0, 1, 9, 10, 99, 100, 499, 500, 10000>>

\* a number for the unordered pair {i, j}
PairNo(ij) == IF ij[1] < ij[2] THEN 5 * ij[1] + ij[2] ELSE 5 * ij[2] + ij[1]

\* A result of stats.spearmanr: symmetric, 1.0 on the diagonal; pair k holds
\* the (a + k)-th coefficient and the (b + k)-th p-value, so that over all a
\* and b every pair meets every coefficient with every p-value.  A constant
\* column deg (0: none) has NaN in its row and column of both matrices.
SpearmanResult(a, b, deg) ==
    [raised |-> FALSE,
     rho |-> [ij \in Indexes |->
                IF deg \in {ij[1], ij[2]} THEN NaN
                ELSE IF ij[1] = ij[2] THEN 1000
                ELSE RVals[((a + PairNo(ij)) % Len(RVals)) + 1]],
     p |-> [ij \in Indexes |->
                IF deg \in {ij[1], ij[2]} THEN NaN
                ELSE IF ij[1] = ij[2] THEN 0
                ELSE PVals[((b + PairNo(ij)) % Len(PVals)) + 1]]]

SpearmanRaised ==
    [raised |-> TRUE, rho |-> [ij \in Indexes |-> 0], p |-> [ij \in Indexes |-> 0]]

TestRaised == [raised |-> TRUE, d |-> 0, p |-> 0]
TestResult(d, p) == [raised |-> FALSE, d |-> d, p |-> p]

\* results of a normality test: significant, just below 0.05, exactly 0.05,
\* clearly not significant, or an exception
NormalityResults ==
    {TestResult(2100, 30), TestResult(900, 499), TestResult(890, 500),
     TestResult(600, 2000), TestRaised}

\* the library results of one analysed DataFrame: tn is the result of either
\* normality test for Neurotyzm, others that for the four other columns
LibraryResults(sp, tl, tk, others) ==
    [describe |-> [c \in DOMAIN PREFIX_MAP |-> [m |-> 1200, min |-> 5, max |-> 20]],
     lilliefors |-> [c \in DOMAIN PREFIX_MAP |-> IF c = "Neurotyzm" THEN tl ELSE others],
     kstest |-> [c \in DOMAIN PREFIX_MAP |-> IF c = "Neurotyzm" THEN tk ELSE others],
     spearmanr |-> sp]

NoLib == LibraryResults(SpearmanRaised, TestRaised, TestRaised, TestRaised)
NotRun == [outcome |-> "none", klucz |-> NoKey]

\* The libraries on the DataFrame of a request: each result is a fixed
\* function of the data (a cross-moment of the columns picks it), as the
\* library routines are; the descriptive values are computed.
\* the sum of f[lo..hi]
RECURSIVE SumOf(_, _, _)
SumOf(f, lo, hi) ==
    IF lo > hi THEN 0
    ELSE IF lo = hi THEN f[lo]
    ELSE LET mid == (lo + hi) \div 2
         IN  SumOf(f, lo, mid) + SumOf(f, mid + 1, hi)

Moment(df, i, j) == SumOf([k \in 1..Len(df) |-> df[k][i] * df[k][j]], 1, Len(df))

ColSum(df, j) == SumOf([k \in 1..Len(df) |-> df[k][j]], 1, Len(df))

ColMin(df, j) == CHOOSE v \in 5..20 :
    /\ \E k \in 1..Len(df) : df[k][j] = v
    /\ \A k \in 1..Len(df) : df[k][j] >= v

ColMax(df, j) == CHOOSE v \in 5..20 :
    /\ \E k \in 1..Len(df) : df[k][j] = v
    /\ \A k \in 1..Len(df) : df[k][j] <= v

LibraryOn(df) ==
    LET n == Len(df)
        mo == [ij \in Indexes |-> Moment(df, ij[1], ij[2])]
    IN  [describe |-> [c \in DOMAIN PREFIX_MAP |->
                        [m |-> (ColSum(df, idx(c)) * 100) \div n,
                         min |-> ColMin(df, idx(c)),
                         max |-> ColMax(df, idx(c))]],
         lilliefors |-> [c \in DOMAIN PREFIX_MAP |->
                        TestResult(300 + (mo[<<idx(c), idx(c)>>] % 1000),
                                   (mo[<<idx(c), idx(c)>>] * 37) % 10001)],
         kstest |-> [c \in DOMAIN PREFIX_MAP |->
                        TestResult(200 + (mo[<<idx(c), idx(c)>>] % 900),
                                   (mo[<<idx(c), idx(c)>>] * 53) % 10001)],
         spearmanr |-> [raised |-> FALSE,
                        rho |-> [ij \in Indexes |->
                                   IF ij[1] = ij[2] THEN 1000
                                   ELSE ((mo[ij] * 11) % 2001) - 1000],
                        p |-> [ij \in Indexes |->
                                   IF ij[1] = ij[2] THEN 0
                                   ELSE (mo[ij] * 29) % 10001]]]

-----------------------------------------------------------------------------
(* Initial state *)

NoDf == <<>>
\* a request: its route and method, the user_id of its query string and the
\* manual_id of its form (None: absent), and, when it follows a redirect,
\* the route, method and manual_id of the request that was redirected
NoFollow == [route |-> "none", method |-> "GET", manual_id |-> None]
Request(route, method, user_id, manual_id, follows) ==
    [route |-> route, method |-> method, user_id |-> user_id,
     manual_id |-> manual_id, follows |-> follows]
NoRequest == Request("none", "GET", None, None, NoFollow)

\* a response: a rendered page or a download (with the identifier and the
\* data it was made from), a redirect to the index route (location: the
\* user_id of its query string), or an error
Response(kind, user_id, df, answers, location) ==
    [kind |-> kind, user_id |-> user_id, df |-> df, answers |-> answers,
     location |-> location]
NoResponse == Response("none", None, NoDf, NoKey, None)
Redirect(location) == Response("redirect", None, NoDf, NoKey, location)

InitProcess ==
    /\ rng = 0
    /\ pc = [t \in Threads |-> "idle"]
    /\ call_uid = [t \in Threads |-> None]
    /\ call_df = [t \in Threads |-> NoDf]
    /\ call_no = [t \in Threads |-> 0]
    /\ log = {}
    /\ ncalls = 0
    /\ has_statsmodels \in BOOLEAN
    /\ wynik = NotRun
    /\ session = None
    /\ stored = {}
    /\ request = NoRequest
    /\ response = NoResponse

Init ==
    /\ InitProcess
    /\ has_pyreadstat = TRUE
    /\ lib = NoLib

\* the analysed data of SpecStats: any library results of the bounded sets
LibraryInputs ==
    {LibraryResults(sp, tl, tk, others) :
        sp \in {SpearmanResult(a, b, deg) :
                    a \in 1..Len(RVals), b \in 1..Len(PVals), deg \in 0..2}
                \cup {SpearmanRaised},
        tl \in NormalityResults, tk \in NormalityResults,
        others \in {TestResult(700, 1500), TestRaised}}

InitStats ==
    /\ InitProcess
    /\ has_pyreadstat = TRUE
    /\ lib \in LibraryInputs

-----------------------------------------------------------------------------
(* Concurrent calls: a thread runs df = generuj_dane_studenta(user_id) and  *)
(* answers = oblicz_poprawne_statystyki(df), as index() does (lines          *)
(* 222-223).  np.random.seed and np.random.multivariate_normal are each one  *)
(* step on the global generator; other threads may run between them.         *)

\* lines 44-46: the call starts and seeds the global generator
Seed(t, user_id) ==
    /\ pc[t] = "idle"
    /\ ncalls < MaxCalls
    /\ rng' = np_random_seed(seed_of(user_id))
    /\ pc' = [pc EXCEPT ![t] = "seeded"]
    /\ call_uid' = [call_uid EXCEPT ![t] = user_id]
    /\ call_no' = [call_no EXCEPT ![t] = ncalls + 1]
    /\ ncalls' = ncalls + 1
    /\ UNCHANGED <<call_df, log, has_statsmodels, has_pyreadstat>>
    /\ UNCHANGED statVars
    /\ UNCHANGED webVars

\* lines 61-66: the sample is drawn from the global generator as it is now
Draw(t) ==
    /\ pc[t] = "seeded"
    /\ LET d == DrawDataFrame(rng, DefaultN)
       IN  /\ rng' = d.state
           /\ call_df' = [call_df EXCEPT ![t] = d.df]
    /\ pc' = [pc EXCEPT ![t] = "drawn"]
    /\ UNCHANGED <<call_uid, call_no, log, ncalls, has_statsmodels, has_pyreadstat>>
    /\ UNCHANGED statVars
    /\ UNCHANGED webVars

\* line 223: the answer key of the DataFrame; the call is over
Analyze(t) ==
    /\ pc[t] = "drawn"
    /\ LET a == oblicz_poprawne_statystyki(LibraryOn(call_df[t]), has_statsmodels)
       IN  log' = log \cup {[no |-> call_no[t], user_id |-> call_uid[t],
                              df |-> call_df[t], key |-> a.klucz]}
    /\ pc' = [pc EXCEPT ![t] = "idle"]
    /\ call_uid' = [call_uid EXCEPT ![t] = None]
    /\ call_df' = [call_df EXCEPT ![t] = NoDf]
    /\ call_no' = [call_no EXCEPT ![t] = 0]
    /\ UNCHANGED <<rng, ncalls, has_statsmodels, has_pyreadstat>>
    /\ UNCHANGED statVars
    /\ UNCHANGED webVars

\* a call that starts only when no other call is running
SeedAlone(t, user_id) ==
    /\ \A u \in Threads : pc[u] = "idle"
    /\ Seed(t, user_id)

-----------------------------------------------------------------------------
(* The analyser applied to the library results of the analysed data *)

Oblicz ==
    /\ wynik = NotRun
    /\ wynik' = oblicz_poprawne_statystyki(lib, has_statsmodels)
    /\ UNCHANGED <<lib, has_statsmodels, has_pyreadstat>>
    /\ UNCHANGED genVars
    /\ UNCHANGED webVars

-----------------------------------------------------------------------------
(* 3. Routes.  Requests of one browser session, handled one at a time; a    *)
(* handler that generates data runs generuj_dane_studenta to its end.       *)

\* the user_id of a query string: absent, empty, or a name
UrlIds == {None, ID_EMPTY, ID_JAN}
\* the manual_id of a posted form: absent, empty, padded, or blank
ManualIds == {None, ID_EMPTY, ID_ADM_PADDED, ID_BLANK}
\* str(uuid.uuid4())[:8]
RandomIds == {ID_UUID1, ID_UUID2}

\* Python truthiness of an optional string
Truthy(x) == x # None /\ x # <<>>

\* str.strip(): without the leading and the trailing spaces
RECURSIVE LStrip(_)
LStrip(x) == IF x # <<>> /\ Head(x) = " " THEN LStrip(Tail(x)) ELSE x
RECURSIVE RStrip(_)
RStrip(x) ==
    IF x # <<>> /\ x[Len(x)] = " " THEN RStrip(SubSeq(x, 1, Len(x) - 1)) ELSE x
Strip(x) == RStrip(LStrip(x))

\* the identifiers a handler can pass to the generator
KnownIds == {ID_JAN, ID_S1, ID_ADM, ID_UUID1, ID_UUID2, ID_EMPTY}

\* generuj_dane_studenta(user_id) of a handler, for each identifier
Generated == [u \in KnownIds |-> generuj_dane_studenta(u)]

\* oblicz_poprawne_statystyki(df) of index(), for each identifier
Answers ==
    [u \in KnownIds |-> [h \in BOOLEAN |->
        oblicz_poprawne_statystyki(LibraryOn(Generated[u].df), h).klucz]]

\* the session given priority over the URL
ChooseUserId_session_first(url_user_id, sess, random_id) ==
    LET s1 == IF sess # None THEN sess ELSE IF Truthy(url_user_id) THEN url_user_id ELSE None
    IN  IF s1 = None THEN random_id ELSE s1

\* lines 207-219 of index(): the identifier of the page, from the user_id
\* of the query string, the session and a fresh random identifier
ChooseUserId(url_user_id, sess, random_id) ==
    LET \* lines 207-209: the URL has priority over the session
        s1 == IF Truthy(url_user_id) THEN url_user_id ELSE sess
    IN  \* lines 213-216: no identifier in the session yet
        IF s1 = None THEN random_id ELSE s1

\* index(), lines 196-225
index(method, url_user_id, manual_id, random_id, follows) ==
    /\ request' = Request("index", method, url_user_id, manual_id, follows)
    /\ IF method = "POST" /\ Truthy(manual_id)
       THEN \* lines 199-203
            /\ session' = Strip(manual_id)
            /\ stored' = stored \cup {Strip(manual_id)}
            /\ response' = Redirect(url_user_id)
            /\ rng' = rng
       ELSE LET user_id == ChooseUserId(url_user_id, session, random_id)
                g == Generated[user_id]
            IN  /\ session' = user_id
                /\ stored' = stored \cup {user_id}
                /\ rng' = g.state
                /\ response' = Response("page", user_id, g.df,
                                        Answers[user_id][has_statsmodels], None)
    /\ UNCHANGED <<has_statsmodels, has_pyreadstat>>
    /\ UNCHANGED <<pc, call_uid, call_df, call_no, log, ncalls>>
    /\ UNCHANGED statVars

\* a browser request to the index route
Index ==
    \E method \in {"GET", "POST"}, url_user_id \in UrlIds, manual_id \in ManualIds,
       random_id \in RandomIds :
        /\ method = "GET" => manual_id = None
        /\ index(method, url_user_id, manual_id, random_id, NoFollow)

\* the browser follows the redirect it was answered with: a GET of the
\* index route with the query string of the Location
FollowRedirect ==
    /\ response.kind = "redirect"
    /\ \E random_id \in RandomIds :
        index("GET", response.location, None, random_id,
              [route |-> request.route, method |-> request.method,
               manual_id |-> request.manual_id])

\* pobierz_csv(), lines 228-241
PobierzCsv ==
    /\ request' = Request("pobierz_csv", "GET", None, None, NoFollow)
    /\ IF session = None
       THEN /\ response' = Redirect(None)
            /\ rng' = rng
       ELSE LET g == Generated[session]
            IN  /\ rng' = g.state
                /\ response' = Response("csv", session, g.df, NoKey, None)
    /\ UNCHANGED <<session, stored, has_statsmodels, has_pyreadstat>>
    /\ UNCHANGED <<pc, call_uid, call_df, call_no, log, ncalls>>
    /\ UNCHANGED statVars

\* pobierz_sav(), lines 244-272; written tells whether pyreadstat.write_sav
\* and the reading back succeeded
PobierzSav ==
    /\ request' = Request("pobierz_sav", "GET", None, None, NoFollow)
    /\ IF session = None
       THEN /\ response' = Redirect(None)
            /\ rng' = rng
       ELSE IF ~has_pyreadstat
       THEN /\ response' = Response("error", None, NoDf, NoKey, None)
            /\ rng' = rng
       ELSE LET g == Generated[session]
            IN  /\ rng' = g.state
                /\ \E written \in BOOLEAN :
                     response' = IF written
                                 THEN Response("sav", session, g.df, NoKey, None)
                                 ELSE Response("error", None, NoDf, NoKey, None)
    /\ UNCHANGED <<session, stored, has_statsmodels, has_pyreadstat>>
    /\ UNCHANGED <<pc, call_uid, call_df, call_no, log, ncalls>>
    /\ UNCHANGED statVars

\* sprawdz(), lines 276-277
Sprawdz ==
    /\ \E method \in {"GET", "POST"} :
         request' = Request("sprawdz", method, None, None, NoFollow)
    /\ response' = Redirect(None)
    /\ UNCHANGED <<rng, session, stored, has_statsmodels, has_pyreadstat>>
    /\ UNCHANGED <<pc, call_uid, call_df, call_no, log, ncalls>>
    /\ UNCHANGED statVars

-----------------------------------------------------------------------------
(* Specifications *)

InitWeb ==
    /\ InitProcess
    /\ has_pyreadstat \in BOOLEAN
    /\ lib = NoLib

NextWeb == Index \/ FollowRedirect \/ PobierzCsv \/ PobierzSav \/ Sprawdz

\* the routes, one browser session
SpecWeb == InitWeb /\ [][NextWeb]_vars

NextCalls == \E t \in Threads :
    \/ \E user_id \in CallIds : Seed(t, user_id)
    \/ Draw(t)
    \/ Analyze(t)

NextSeq == \E t \in Threads :
    \/ \E user_id \in CallIds : SeedAlone(t, user_id)
    \/ Draw(t)
    \/ Analyze(t)

NextStats == Oblicz

Next == NextCalls \/ NextStats \/ NextWeb

\* the whole program
Spec == InitWeb /\ [][Next]_vars

\* concurrent request threads
SpecCalls == Init /\ [][NextCalls]_vars

\* calls one after the other
SpecSeq == Init /\ [][NextSeq]_vars

\* the analyser alone
SpecStats == InitStats /\ [][NextStats]_vars

-----------------------------------------------------------------------------
(* Properties of the generator *)

\* range of raw draws, in tenths, over which rounding and clipping is checked
RawMax == 400

\* C1: calls that do not overlap and carry the same identifier return the
\* same DataFrame, whatever was generated before or between them, and the
\* same DataFrame always gets the same answer key.
C1_SameIdSameData ==
    \A a \in log, b \in log :
        /\ a.user_id = b.user_id => a.df = b.df
        /\ a.df = b.df => a.key = b.key

\* two finished calls for one identifier with a call for another between them
C1_Witness ==
    \E a \in log, b \in log, c \in log :
        /\ a.no < c.no /\ c.no < b.no
        /\ a.user_id = b.user_id /\ c.user_id # a.user_id
        /\ a.df = b.df /\ a.key = b.key /\ c.df # a.df

\* every raw value, whatever it is, rounds and clips to an integer of 5..20
RoundAndClipInRange == \A x \in (-RawMax)..RawMax : RoundAndClip(x) \in 5..20

\* C2: a returned DataFrame has exactly 100 records of exactly 5 fields, and
\* every value is an integer in 5..20 whatever was drawn.
C2_ShapeAndRange ==
    /\ RoundAndClipInRange
    /\ Len(Columns) = 5
    /\ \A e \in log :
        /\ DOMAIN e.df = 1..100
        /\ \A i \in DOMAIN e.df :
            /\ DOMAIN e.df[i] = 1..Len(Columns)
            /\ \A j \in DOMAIN e.df[i] : e.df[i][j] \in 5..20

\* a returned DataFrame whose raw draws fell below 5 and above 20, and which
\* holds both limits
C2_Witness ==
    \E e \in log :
        LET raw == multivariate_normal(np_random_seed(seed_of(e.user_id)), DefaultN).data
        IN  /\ \E i \in 1..DefaultN, j \in 1..5 : raw[i][j] < 45 /\ e.df[i][j] = 5
            /\ \E i \in 1..DefaultN, j \in 1..5 : raw[i][j] > 205 /\ e.df[i][j] = 20

\* the identifiers of all calls started so far are pairwise different
DistinctCalls ==
    /\ \A a \in log, b \in log : a.user_id = b.user_id => a = b
    /\ \A t \in Threads, e \in log : pc[t] # "idle" => call_uid[t] # e.user_id
    /\ \A t \in Threads, u \in Threads :
        (pc[t] # "idle" /\ pc[u] # "idle" /\ t # u) => call_uid[t] # call_uid[u]

\* C3: concurrent calls for different identifiers do not interfere: each
\* returns the DataFrame its identifier yields when the call runs alone.
C3_NoInterference ==
    DistinctCalls =>
        /\ \A e \in log : e.df = Generated[e.user_id].df
        /\ \A t \in Threads : pc[t] = "drawn" => call_df[t] = Generated[call_uid[t]].df

-----------------------------------------------------------------------------
(* Properties of the answer key *)

Returned == wynik.outcome = "return"

\* the coefficient and the p-value hypothesis h reads in the analysed data:
\* H1 Neurotyzm-Ekstrawersja, H2 Otwartosc-Ekstrawersja, H3
\* Otwartosc-Neurotyzm, H4 Ugodowosc-Ekstrawersja (columns counted from 1)
HypothesisIndex == << <<2, 1>>, <<3, 1>>, <<3, 2>>, <<4, 1>> >>
R(h) == lib.spearmanr.rho[HypothesisIndex[h]]
P(h) == lib.spearmanr.p[HypothesisIndex[h]]

ExpectsNegative(h) == h \in {1, 3}
SignAsExpected(h) ==
    R(h) # NaN /\ IF ExpectsNegative(h) THEN R(h) < 0 ELSE R(h) > 0
Significant(h) == P(h) # NaN /\ P(h) < 500

\* C4: the verdict of each hypothesis is 'potwierdza' exactly when p < 0.05
\* and the sign of r is the expected one (H4: and |r| >= 0.1), otherwise
\* 'nie potwierdza'; r = -0.55, p = 0.0001 gives silny, negatywny,
\* potwierdza for H1.
C4_Verdicts ==
    Returned =>
        /\ \A h \in 1..4 :
            LET confirmed == /\ Significant(h)
                             /\ SignAsExpected(h)
                             /\ (h = 4 => (R(h) >= 100 \/ R(h) <= -100))
            IN  wynik.klucz[HName(h) \o "_decyzja"] =
                    IF confirmed THEN "potwierdza" ELSE "nie potwierdza"
        /\ (R(1) = -550 /\ P(1) = 1) =>
            /\ wynik.klucz["h1_sila"] = "silny"
            /\ wynik.klucz["h1_kierunek"] = "negatywny"
            /\ wynik.klucz["h1_decyzja"] = "potwierdza"

\* the example of the claim: r = -0.55 and p = 0.0001 for H1
C4_Witness ==
    /\ Returned
    /\ R(1) = -550 /\ P(1) = 1 /\ wynik.klucz["h1_decyzja"] = "potwierdza"
    /\ wynik.klucz["h1_sila"] = "silny"

\* the analysed data with another result of the Neurotyzm normality test
WithNeuroTest(L, t) ==
    [L EXCEPT !.lilliefors["Neurotyzm"] = t, !.kstest["Neurotyzm"] = t]

MethodKeyNames == {"rozklad_typ", "korelacja_typ"}
NeuroTestKeyNames == {"neuro_d", "neuro_p"}

LabelsFollow(k) ==
    IF k["neuro_p"] < 500
    THEN k["rozklad_typ"] = "niespelnienie" /\ k["korelacja_typ"] = "rho-Spearmana"
    ELSE k["rozklad_typ"] = "spelnienie" /\ k["korelacja_typ"] = "r-Pearsona"

\* C5: the method label is informational only.  A second run on data that
\* differ from the analysed data only in the Neurotyzm normality result
\* gives the same formatted correlations and the same strength, direction
\* and verdict of H1..H4 (every key but the normality result and the two
\* labels is equal); the labels are niespelnienie/rho-Spearmana when that
\* p-value is below 0.05 and spelnienie/r-Pearsona otherwise.
C5_LabelOnly ==
    Returned =>
        /\ LabelsFollow(wynik.klucz)
        /\ \A t \in NormalityResults :
            LET other == oblicz_poprawne_statystyki(WithNeuroTest(lib, t), has_statsmodels)
            IN  other.outcome = "return" =>
                    /\ LabelsFollow(other.klucz)
                    /\ DOMAIN other.klucz = DOMAIN wynik.klucz
                    /\ \A k \in DOMAIN wynik.klucz \ (MethodKeyNames \cup NeuroTestKeyNames) :
                        other.klucz[k] = wynik.klucz[k]

\* a key labelled r-Pearsona whose H1 verdict is confirmed, and a normality
\* result that would turn the label
C5_Witness ==
    /\ Returned
    /\ wynik.klucz["korelacja_typ"] = "r-Pearsona"
    /\ wynik.klucz["h1_decyzja"] = "potwierdza"
    /\ \E t \in NormalityResults :
        LET other == oblicz_poprawne_statystyki(WithNeuroTest(lib, t), has_statsmodels)
        IN  other.outcome = "return" /\ other.klucz["korelacja_typ"] = "rho-Spearmana"

\* a library call the function made has failed
ComputationFailed ==
    \/ lib.spearmanr.raised
    \/ \E c \in DOMAIN PREFIX_MAP :
        IF has_statsmodels THEN lib.lilliefors[c].raised ELSE lib.kstest[c].raised

\* C6: a failed computation is fatal: the caller gets an explicit failure and
\* no answer key, never a key with substituted values.
C6_FailureIsFatal ==
    (wynik # NotRun /\ ComputationFailed) =>
        wynik.outcome = "raise" /\ wynik.klucz = NoKey

\* the range [-1, 1] of a coefficient, in thousandths
RMax == 1000

StrengthOf(a) ==
    IF a < 100 THEN "brak"
    ELSE IF a < 300 THEN "slaby"
    ELSE IF a < 500 THEN "umiarkowany"
    ELSE "silny"

\* ocen_sile on every coefficient of [-1, 1]: the four classes, and symmetry
OcenSileOnRange ==
    \A r \in (-RMax)..RMax :
        /\ ocen_sile(r) = StrengthOf(IF r < 0 THEN -r ELSE r)
        /\ ocen_sile(r) = ocen_sile(-r)

\* C7: ocen_sile gives brak below 0.1, slaby from 0.1, umiarkowany from 0.3
\* and silny from 0.5 of |r|, each threshold in the stronger class, and the
\* same for r and -r.
C7_Strength ==
    /\ OcenSileOnRange
    /\ ocen_sile(99) = "brak" /\ ocen_sile(100) = "slaby"
    /\ ocen_sile(299) = "slaby" /\ ocen_sile(300) = "umiarkowany"
    /\ ocen_sile(499) = "umiarkowany" /\ ocen_sile(500) = "silny"
    /\ Returned => \A h \in 1..4 :
        R(h) # NaN =>
            wynik.klucz[HName(h) \o "_sila"] = StrengthOf(IF R(h) < 0 THEN -R(h) ELSE R(h))

\* a key whose H1, H2 and H3 coefficients sit just below, on and (negated)
\* on the threshold 0.5
C7_Witness ==
    /\ Returned
    /\ R(1) = 499 /\ wynik.klucz["h1_sila"] = "umiarkowany"
    /\ R(2) = 500 /\ wynik.klucz["h2_sila"] = "silny"
    /\ R(3) = -500 /\ wynik.klucz["h3_sila"] = "silny"

ExpectedDirection(h) == IF ExpectsNegative(h) THEN "negatywny" ELSE "pozytywny"

\* C10 as claimed: a confirmed verdict comes with the expected direction and
\* a strength other than brak, for each of H1..H4.
C10_ConfirmedHasDirection ==
    Returned => \A h \in 1..4 :
        wynik.klucz[HName(h) \o "_decyzja"] = "potwierdza" =>
            /\ wynik.klucz[HName(h) \o "_kierunek"] = ExpectedDirection(h)
            /\ wynik.klucz[HName(h) \o "_sila"] # "brak"

\* C10 amended: a confirmed verdict comes with a coefficient of the expected
\* sign; for H4 the direction is pozytywny and the strength is not brak; for
\* H1..H3 the direction is the expected one and the strength is not brak
\* when |r| >= 0.1, and they are zwiazku and brak when |r| < 0.1.
C10_ConfirmedHasSign ==
    Returned => \A h \in 1..4 :
        wynik.klucz[HName(h) \o "_decyzja"] = "potwierdza" =>
            /\ SignAsExpected(h)
            /\ IF h = 4 \/ R(h) >= 100 \/ R(h) <= -100
               THEN /\ wynik.klucz[HName(h) \o "_kierunek"] = ExpectedDirection(h)
                    /\ wynik.klucz[HName(h) \o "_sila"] # "brak"
               ELSE /\ wynik.klucz[HName(h) \o "_kierunek"] = "zwiazku"
                    /\ wynik.klucz[HName(h) \o "_sila"] = "brak"

\* H2 confirmed with no relation reported, and H4 not confirmed on a
\* significant positive coefficient below 0.1
C10_Witness ==
    /\ Returned
    /\ wynik.klucz["h2_decyzja"] = "potwierdza" /\ wynik.klucz["h2_kierunek"] = "zwiazku"
    /\ \E r \in {1, 99} : R(4) = r /\ P(4) < 500 /\ wynik.klucz["h4_decyzja"] = "nie potwierdza"

-----------------------------------------------------------------------------
(* Properties of the routes *)

\* the step renders a page of the index route for the identifier the claim
\* names: the user_id of the URL when the request carries one (a non-empty
\* value), otherwise the identifier stored in the session, otherwise a
\* fresh random identifier, which is stored
PageForClaimedId ==
    (request'.route = "index" /\ response'.kind = "page") =>
        LET url == request'.user_id
            used == response'.user_id
        IN  /\ Truthy(url) => used = url
            /\ (~Truthy(url) /\ session # None) => used = session
            /\ (~Truthy(url) /\ session = None) => used \in RandomIds /\ session' = used
            /\ response'.df = Generated[used].df
            /\ response'.answers = Answers[used][has_statsmodels]

\* the step is an index GET without a user_id parameter that renders a page
PlainGetPage ==
    /\ request'.route = "index" /\ request'.method = "GET"
    /\ request'.user_id = None /\ response'.kind = "page"

\* C8 as claimed: the page is for the URL's user_id, else the stored
\* identifier, else a fresh random one; and once an identifier is stored,
\* every later index GET without a user_id renders with that same
\* identifier (every identifier the session has ever held is the rendered
\* one).
C8_OnceStoredAlways ==
    [][/\ PageForClaimedId
       /\ PlainGetPage => \A x \in stored : response'.user_id = x
      ]_vars

\* C8 amended: the page is for the URL's user_id when the request carries a
\* non-empty one, else the stored identifier, else a fresh random one; the
\* identifier of the page is then the stored one, so a later index GET
\* without a user_id renders with the identifier stored last; a random
\* identifier is made only when the session holds none.
C8_IdentifierSource ==
    [][/\ PageForClaimedId
       /\ (request'.route = "index" /\ response'.kind = "page") =>
            session' = response'.user_id
       /\ PlainGetPage =>
            /\ session # None => (response'.user_id = session /\ session' = session)
            /\ response'.user_id \in RandomIds \ stored => session = None
      ]_vars

\* a page for an identifier that only the session can have supplied: the
\* request carries no user_id and the page is for the name of an earlier
\* URL, which replaced the random identifier stored first
C8_Witness ==
    /\ request.route = "index" /\ request.method = "GET" /\ request.user_id = None
    /\ request.follows = NoFollow
    /\ response.kind = "page" /\ response.user_id = ID_JAN /\ session = ID_JAN
    /\ stored \cap RandomIds # {}

\* C9: after a POST of a non-empty manual_id and the redirect that answers
\* it, the session and the page hold the stripped manual_id, whatever URL
\* the POST was sent to.
C9_ManualIdTakesEffect ==
    (/\ request.route = "index"
     /\ request.follows.route = "index"
     /\ request.follows.method = "POST"
     /\ Truthy(request.follows.manual_id)) =>
        /\ session = Strip(request.follows.manual_id)
        /\ response.kind = "page"
        /\ response.user_id = Strip(request.follows.manual_id)

====
